---- MODULE Spec2Model ----
(***************************************************************************)
(* The ChartOfAccounts view (frontend/src/components/banking/              *)
(* ChartOfAccounts.js) as a state machine: the component's React state,    *)
(* the getAccounts requests in flight, the debounce timers with the        *)
(* closures they captured, and the handleRefresh continuations.            *)
(*                                                                         *)
(* One action is one task of the browser's event loop together with the    *)
(* render and the effects React runs for it; a continuation that runs as   *)
(* a microtask is a separate action that runs before any other task.       *)
(***************************************************************************)
EXTENDS Integers, Sequences, FiniteSets, TLC

VARIABLES
    mounted,        \* the first render's effects have run
    currentCompany, \* useCompany().currentCompany?.id, NoCompany when absent
    searchTerm, filterType, showInactive,
    accounts, loading, error, refreshing,
    inflight,       \* the getAccounts invocations not answered yet, in
                    \* the order in which they were issued
    timers,         \* pending setTimeout callbacks with their closures
    refreshCont,    \* handleRefresh continuations queued as microtasks
    lastSuccess,    \* the most recently completed successful request
    sinceChange     \* ms since searchTerm, filterType or showInactive changed

vars == <<mounted, currentCompany, searchTerm, filterType, showInactive,
          accounts, loading, error, refreshing, inflight, timers,
          refreshCont, lastSuccess, sinceChange>>

----------------------------------------------------------------------------
(* Bounds of the model                                                     *)

MaxInFlight == 2    \* getAccounts invocations awaiting their answer
TickMs == 250       \* the largest step by which time advances

(* Values                                                                  *)

Null == "null"              \* JavaScript null
Undefined == "undefined"    \* JavaScript undefined
NoCompany == "none"         \* currentCompany is null
Companies == {"c1", "c2"}
SearchTerms == {"", "ba"}
FilterTypes == {"all", "bank"}

A1 == [id |-> 1, name |-> "Bank One", type |-> "Bank", number |-> "1000",
       balance |-> 100, is_active |-> TRUE]
A2 == [id |-> 2, name |-> "Truck", type |-> "Fixed Asset", number |-> "",
       balance |-> 500, is_active |-> FALSE]

\* what the service may answer: { data: [...] } or an object without data
Responses == {[hasData |-> FALSE, data |-> <<>>],
              [hasData |-> TRUE, data |-> <<A1, A2>>]}

\* err.message of a rejection: a text, the empty text, or none
RejectMessages == {"timeout", "", Undefined}

DefaultError == "Failed to load accounts"
\* the TypeError of reading .id of null; its text is the engine's
TypeErrorMessage == "Cannot read properties of null (reading 'id')"

DebounceMs == 500

Min(a, b) == IF a < b THEN a ELSE b

----------------------------------------------------------------------------
(* The options of a getAccounts call for the values a closure holds        *)
Options(st, ft, si) ==
    [limit |-> 1000,
     is_active |-> IF si THEN Undefined ELSE "true",
     search |-> IF st = "" THEN Undefined ELSE st,
     account_type |-> IF ft = "all" THEN Undefined ELSE ft]

(* The render guards: which of the four outputs the component returns      *)
View ==
    IF loading THEN "loading"
    ELSE IF error \notin {Null, ""} THEN "error"
    ELSE IF currentCompany = NoCompany THEN "select"
    ELSE "main"

(* loadAccounts up to its await, run with the closure (co, st, ft, si).    *)
(* awaited says that the caller is handleRefresh, whose continuation waits *)
(* for this loadAccounts; optsCurrent records whether the closure's filter *)
(* values were the current ones when the request was issued, newest that   *)
(* no request has been issued after this one.                              *)
(* Reading currentCompany.id of null throws inside the try: the catch      *)
(* sets error and the finally sets loading, with no request issued.        *)
LoadAccounts(co, st, ft, si, awaited) ==
    IF co = NoCompany
    THEN /\ loading' = FALSE
         /\ error' = TypeErrorMessage
         /\ UNCHANGED <<inflight>>
    ELSE /\ loading' = TRUE
         /\ error' = Null
         /\ inflight' = Append([i \in 1..Len(inflight) |->
                                   [inflight[i] EXCEPT !.newest = FALSE]],
                [company |-> co, awaited |-> awaited, newest |-> TRUE,
                 optsCurrent |-> Options(st, ft, si)
                                 = Options(searchTerm, filterType, showInactive)])

Init ==
    /\ mounted = FALSE
    /\ currentCompany \in Companies \cup {NoCompany}
    /\ searchTerm = ""
    /\ filterType = "all"
    /\ showInactive = FALSE
    /\ accounts = <<>>
    /\ loading = TRUE
    /\ error = Null
    /\ refreshing = FALSE
    /\ inflight = <<>>
    /\ timers = {}
    /\ refreshCont = 0
    /\ lastSuccess = [company |-> NoCompany, newest |-> TRUE,
                      optsCurrent |-> TRUE,
                      resp |-> [hasData |-> FALSE, data |-> <<>>]]
    /\ sinceChange = DebounceMs

(* A timer the debounce effect schedules: the closure of the render that   *)
(* ran the effect; owned marks the timer the effect's cleanup will clear.  *)
NewTimer(co, st, ft, si) ==
    [company |-> co, searchTerm |-> st, filterType |-> ft, showInactive |-> si,
     remaining |-> DebounceMs, owned |-> TRUE]

(* Mutant of DebounceEffect: the effect returns no cleanup, so the timer   *)
(* of the previous run stays pending.                                      *)
DebounceEffectNoCleanup(co, st, ft, si) ==
    timers' = {[t EXCEPT !.owned = FALSE] : t \in timers}
              \cup (IF co # NoCompany THEN {NewTimer(co, st, ft, si)} ELSE {})

(* The debounce effect for a render with the values (co, st, ft, si): the  *)
(* previous run's cleanup clears its timer, then a timer is scheduled when *)
(* a company is selected.                                                  *)
DebounceEffect(co, st, ft, si) ==
    timers' = {t \in timers : ~t.owned}
              \cup (IF co # NoCompany THEN {NewTimer(co, st, ft, si)} ELSE {})

(* Mount: both effects run after the first render.                         *)
Mount ==
    /\ ~mounted
    /\ mounted' = TRUE
    /\ IF currentCompany # NoCompany
       THEN LoadAccounts(currentCompany, searchTerm, filterType, showInactive,
                         FALSE)
       ELSE UNCHANGED <<loading, error, inflight>>
    /\ DebounceEffect(currentCompany, searchTerm, filterType, showInactive)
    /\ UNCHANGED <<currentCompany, searchTerm, filterType, showInactive, accounts,
                   refreshing, refreshCont, lastSuccess,
                   sinceChange>>

(* Mutant of SetCompany: the first effect has an empty dependency list and *)
(* does not run when the company changes.                                  *)
SetCompanyNoLoad(c) ==
    /\ mounted /\ refreshCont = 0
    /\ c # currentCompany
    /\ currentCompany' = c
    /\ UNCHANGED <<mounted, searchTerm, filterType, showInactive, accounts,
                   loading, error, refreshing, inflight, timers, refreshCont,
                   lastSuccess, sinceChange>>

(* The company context supplies another company, or none.  The first      *)
(* effect depends on currentCompany?.id alone and calls the loadAccounts   *)
(* of the new render; the debounce effect does not depend on the company   *)
(* and does not run, so pending timers keep the closures they have.        *)
SetCompany(c) ==
    /\ mounted /\ refreshCont = 0
    /\ c # currentCompany
    /\ c # NoCompany => Len(inflight) < MaxInFlight
    /\ currentCompany' = c
    /\ IF c # NoCompany
       THEN LoadAccounts(c, searchTerm, filterType, showInactive, FALSE)
       ELSE UNCHANGED <<loading, error, inflight>>
    /\ UNCHANGED <<mounted, searchTerm, filterType, showInactive, accounts,
                   refreshing, timers, refreshCont, lastSuccess,
                   sinceChange>>

(* The search box, the type select and the inactive toggle are part of the *)
(* main output only.  Each sets its state; the render that follows runs    *)
(* the debounce effect with the new values.                                *)
SetSearchTerm(s) ==
    /\ mounted /\ refreshCont = 0
    /\ View = "main"
    /\ s # searchTerm
    /\ searchTerm' = s
    /\ DebounceEffect(currentCompany, s, filterType, showInactive)
    /\ sinceChange' = 0
    /\ UNCHANGED <<mounted, currentCompany, filterType, showInactive, accounts,
                   loading, error, refreshing, inflight, refreshCont,
                   lastSuccess>>

SetFilterType(ft) ==
    /\ mounted /\ refreshCont = 0
    /\ View = "main"
    /\ ft # filterType
    /\ filterType' = ft
    /\ DebounceEffect(currentCompany, searchTerm, ft, showInactive)
    /\ sinceChange' = 0
    /\ UNCHANGED <<mounted, currentCompany, searchTerm, showInactive, accounts,
                   loading, error, refreshing, inflight, refreshCont,
                   lastSuccess>>

(* Mutant of ToggleShowInactive: showInactive is missing from the debounce *)
(* effect's dependency list, so a pending timer keeps the old value.       *)
ToggleShowInactiveStale ==
    /\ mounted /\ refreshCont = 0
    /\ View = "main"
    /\ showInactive' = ~showInactive
    /\ sinceChange' = 0
    /\ UNCHANGED <<mounted, currentCompany, searchTerm, filterType, accounts,
                   loading, error, refreshing, inflight, timers, refreshCont,
                   lastSuccess>>

ToggleShowInactive ==
    /\ mounted /\ refreshCont = 0
    /\ View = "main"
    /\ showInactive' = ~showInactive
    /\ DebounceEffect(currentCompany, searchTerm, filterType, ~showInactive)
    /\ sinceChange' = 0
    /\ UNCHANGED <<mounted, currentCompany, searchTerm, filterType, accounts,
                   loading, error, refreshing, inflight, refreshCont,
                   lastSuccess>>

(* Time passes, by at most TickMs and not beyond the next timer's expiry.  *)
Tick ==
    /\ mounted /\ refreshCont = 0
    /\ \A t \in timers : t.remaining > 0
    /\ timers # {} \/ sinceChange < DebounceMs
    /\ LET step == IF timers = {} THEN TickMs
                   ELSE Min(TickMs, CHOOSE r \in {t.remaining : t \in timers} :
                                      \A t \in timers : r <= t.remaining)
       IN  /\ timers' = {[t EXCEPT !.remaining = @ - step] : t \in timers}
           /\ sinceChange' = Min(DebounceMs, sinceChange + step)
    /\ UNCHANGED <<mounted, currentCompany, searchTerm, filterType, showInactive,
                   accounts, loading, error, refreshing, inflight,
                   refreshCont, lastSuccess>>

(* An expired timer runs its callback: the loadAccounts of the render that *)
(* scheduled it, with that render's currentCompany and filter values.      *)
TimerFire(t) ==
    /\ mounted /\ refreshCont = 0
    /\ t \in timers /\ t.remaining = 0
    /\ Len(inflight) < MaxInFlight
    /\ timers' = timers \ {t}
    /\ LoadAccounts(t.company, t.searchTerm, t.filterType, t.showInactive,
                    FALSE)
    /\ UNCHANGED <<mounted, currentCompany, searchTerm, filterType, showInactive,
                   accounts, refreshing, refreshCont, lastSuccess,
                   sinceChange>>

(* Mutant of HandleRefresh: loadAccounts is called without await, so       *)
(* refreshing is set back at once.                                         *)
HandleRefreshNoAwait ==
    /\ mounted /\ refreshCont = 0
    /\ (View = "main" /\ ~refreshing) \/ View = "error"
    /\ currentCompany # NoCompany => Len(inflight) < MaxInFlight
    /\ refreshing' = FALSE
    /\ LoadAccounts(currentCompany, searchTerm, filterType, showInactive,
                    FALSE)
    /\ UNCHANGED <<mounted, currentCompany, searchTerm, filterType, showInactive,
                   accounts, timers, refreshCont, lastSuccess, sinceChange>>

(* handleRefresh up to its await.  The Refresh button is part of the main  *)
(* output and disabled while refreshing; the Retry button is part of the   *)
(* error output.  When loadAccounts threw and caught before its own await, *)
(* the continuation of handleRefresh is already queued.                    *)
HandleRefresh ==
    /\ mounted /\ refreshCont = 0
    /\ (View = "main" /\ ~refreshing) \/ View = "error"
    /\ currentCompany # NoCompany => Len(inflight) < MaxInFlight
    /\ refreshing' = TRUE
    /\ LoadAccounts(currentCompany, searchTerm, filterType, showInactive,
                    TRUE)
    /\ refreshCont' = IF currentCompany = NoCompany THEN refreshCont + 1
                      ELSE refreshCont
    /\ UNCHANGED <<mounted, currentCompany, searchTerm, filterType, showInactive,
                   accounts, timers, lastSuccess, sinceChange>>

(* Mutant of LoadAccountsResolved: the answer of a request that is not the *)
(* newest is dropped.                                                      *)
LoadAccountsResolvedLatestOnly(r, resp) ==
    /\ accounts' = IF r.newest
                   THEN (IF resp.hasData THEN resp.data ELSE <<>>)
                   ELSE accounts
    /\ loading' = FALSE
    /\ UNCHANGED error

(* loadAccounts after its await, the request r having resolved with resp   *)
LoadAccountsResolved(r, resp) ==
    /\ accounts' = IF resp.hasData THEN resp.data ELSE <<>>
    /\ loading' = FALSE
    /\ UNCHANGED error

(* Mutant of LoadAccountsRejected: the catch also clears accounts.         *)
LoadAccountsRejectedClearing(r, msg) ==
    /\ error' = IF msg \in {Undefined, ""} THEN DefaultError ELSE msg
    /\ loading' = FALSE
    /\ accounts' = <<>>

(* Mutant of LoadAccountsRejected: loading is reset after the try block    *)
(* instead of in a finally, so the catch path leaves it.                   *)
LoadAccountsRejectedNoFinally(r, msg) ==
    /\ error' = IF msg \in {Undefined, ""} THEN DefaultError ELSE msg
    /\ UNCHANGED <<loading, accounts>>

(* loadAccounts after its await, the request r having rejected with an     *)
(* error whose message is msg: the catch, then the finally                 *)
LoadAccountsRejected(r, msg) ==
    /\ error' = IF msg \in {Undefined, ""} THEN DefaultError ELSE msg
    /\ loading' = FALSE
    /\ UNCHANGED accounts

RemoveAt(q, i) == [j \in 1..(Len(q) - 1) |-> IF j < i THEN q[j] ELSE q[j + 1]]

(* The service answers the i-th request in flight.  When handleRefresh awaits this         *)
(* loadAccounts, its continuation is queued behind it.                     *)
Resolve(i, resp) ==
    /\ mounted /\ refreshCont = 0
    /\ i \in 1..Len(inflight)
    /\ inflight' = RemoveAt(inflight, i)
    /\ LoadAccountsResolved(inflight[i], resp)
    /\ refreshCont' = IF inflight[i].awaited THEN refreshCont + 1
                      ELSE refreshCont
    /\ lastSuccess' = [company |-> inflight[i].company,
                       newest |-> inflight[i].newest,
                       optsCurrent |-> inflight[i].optsCurrent,
                       resp |-> resp]
    /\ UNCHANGED <<mounted, currentCompany, searchTerm, filterType, showInactive,
                   refreshing, timers, sinceChange>>

Reject(i, msg) ==
    /\ mounted /\ refreshCont = 0
    /\ i \in 1..Len(inflight)
    /\ inflight' = RemoveAt(inflight, i)
    /\ LoadAccountsRejected(inflight[i], msg)
    /\ refreshCont' = IF inflight[i].awaited THEN refreshCont + 1
                      ELSE refreshCont
    /\ UNCHANGED <<mounted, currentCompany, searchTerm, filterType, showInactive,
                   refreshing, timers, lastSuccess, sinceChange>>

(* handleRefresh after its await                                           *)
RefreshContinue ==
    /\ refreshCont > 0
    /\ refreshCont' = refreshCont - 1
    /\ refreshing' = FALSE
    /\ UNCHANGED <<mounted, currentCompany, searchTerm, filterType, showInactive,
                   accounts, loading, error, inflight, timers,
                   lastSuccess, sinceChange>>

Next ==
    \/ Mount
    \/ \E c \in Companies \cup {NoCompany} : SetCompany(c)
    \/ \E s \in SearchTerms : SetSearchTerm(s)
    \/ \E ft \in FilterTypes : SetFilterType(ft)
    \/ ToggleShowInactive
    \/ Tick
    \/ \E t \in timers : TimerFire(t)
    \/ HandleRefresh
    \/ \E i \in 1..Len(inflight), resp \in Responses : Resolve(i, resp)
    \/ \E i \in 1..Len(inflight), msg \in RejectMessages : Reject(i, msg)
    \/ RefreshContinue

Spec == Init /\ [][Next]_vars

(* The service answers the oldest request in flight, and a queued         *)
(* continuation runs.                                                      *)
FairSpec ==
    /\ Spec
    /\ WF_vars(RefreshContinue)
    /\ WF_vars(\/ \E resp \in Responses : Resolve(1, resp)
               \/ \E msg \in RejectMessages : Reject(1, msg))

----------------------------------------------------------------------------
(* What a render of the main view derives from its state: filteredAccounts *)
(* and accountStats.                                                       *)

\* The characters of the texts that occur in the model
Chars(s) ==
    CASE s = "" -> <<>>
      [] s = "ba" -> <<"b", "a">>
      [] s = "BA" -> <<"B", "A">>
      [] s = "10" -> <<"1", "0">>
      [] s = "1000" -> <<"1", "0", "0", "0">>
      [] s = "ba7" -> <<"b", "a", "7">>
      [] s = "BA-2" -> <<"B", "A", "-", "2">>
      [] s = "all" -> <<"a", "l", "l">>
      [] s = "bank" -> <<"b", "a", "n", "k">>
      [] s = "Bank" -> <<"B", "a", "n", "k">>
      [] s = "fixed asset" ->
            <<"f", "i", "x", "e", "d", " ", "a", "s", "s", "e", "t">>
      [] s = "Fixed Asset" ->
            <<"F", "i", "x", "e", "d", " ", "A", "s", "s", "e", "t">>
      [] s = "accounts payable" ->
            <<"a", "c", "c", "o", "u", "n", "t", "s", " ",
              "p", "a", "y", "a", "b", "l", "e">>
      [] s = "Accounts Payable" ->
            <<"A", "c", "c", "o", "u", "n", "t", "s", " ",
              "P", "a", "y", "a", "b", "l", "e">>
      [] s = "Bank One" -> <<"B", "a", "n", "k", " ", "O", "n", "e">>
      [] s = "Truck" -> <<"T", "r", "u", "c", "k">>
      [] s = "ABA" -> <<"A", "B", "A">>
      [] s = "Rent" -> <<"R", "e", "n", "t">>
      [] s = "Cash" -> <<"C", "a", "s", "h">>

UpperCase == <<"A", "B", "C", "D", "E", "F", "G", "H", "I", "J", "K", "L", "M",
               "N", "O", "P", "Q", "R", "S", "T", "U", "V", "W", "X", "Y", "Z">>
LowerCase == <<"a", "b", "c", "d", "e", "f", "g", "h", "i", "j", "k", "l", "m",
               "n", "o", "p", "q", "r", "s", "t", "u", "v", "w", "x", "y", "z">>

\* String.prototype.toLowerCase, on the characters of a text
ToLowerCase(t) ==
    [i \in 1..Len(t) |->
        IF \E k \in 1..Len(UpperCase) : UpperCase[k] = t[i]
        THEN LowerCase[CHOOSE k \in 1..Len(UpperCase) : UpperCase[k] = t[i]]
        ELSE t[i]]

\* String.prototype.includes: sub occurs in t at some position
Includes(t, sub) ==
    \E k \in 0..(Len(t) - Len(sub)) : \A j \in 1..Len(sub) : t[k + j] = sub[j]

\* An account of a response may lack number and balance
A3 == [id |-> 3, name |-> "ABA", type |-> "bank", number |-> "ba7",
       balance |-> 7, is_active |-> TRUE]
A4 == [id |-> 4, name |-> "Rent", type |-> "Accounts Payable",
       number |-> "BA-2", balance |-> -40, is_active |-> FALSE]
A5 == [id |-> 5, name |-> "Cash", type |-> "Bank", is_active |-> TRUE]

MatchesSearchAnyCase(account, st) ==
    \/ st = ""
    \/ Includes(ToLowerCase(Chars(account.name)), ToLowerCase(Chars(st)))
    \/ /\ "number" \in DOMAIN account
       /\ account.number # ""
       /\ Includes(ToLowerCase(Chars(account.number)), ToLowerCase(Chars(st)))

(* A number that is absent or empty is falsy and is not searched; as in    *)
(* the code, the number is searched without lower-casing either side.      *)
MatchesSearch(account, st) ==
    \/ st = ""
    \/ Includes(ToLowerCase(Chars(account.name)), ToLowerCase(Chars(st)))
    \/ /\ "number" \in DOMAIN account
       /\ account.number # ""
       /\ Includes(Chars(account.number), Chars(st))

MatchesType(account, ft) ==
    \/ ft = "all"
    \/ ToLowerCase(Chars(account.type)) = ToLowerCase(Chars(ft))

MatchesActiveOnly(account, si) ==
    IF si THEN ~account.is_active ELSE account.is_active

MatchesActive(account, si) == si \/ account.is_active

\* accounts.filter(...) of a render whose state is (accts, st, ft, si)
FilteredAccounts(accts, st, ft, si) ==
    SelectSeq(accts, LAMBDA account : /\ MatchesSearch(account, st)
                                      /\ MatchesType(account, ft)
                                      /\ MatchesActive(account, si))

filteredAccounts ==
    FilteredAccounts(accounts, searchTerm, filterType, showInactive)

\* acc.balance || 0
Balance(account) ==
    IF "balance" \in DOMAIN account THEN account.balance ELSE 0

\* accts.filter(acc => acc.type === type).reduce((sum, acc) => ..., 0)
RECURSIVE TotalOfType(_, _)
TotalOfType(accts, type) ==
    IF accts = <<>> THEN 0
    ELSE LET n == Len(accts)
         IN  TotalOfType(SubSeq(accts, 1, n - 1), type)
             + (IF accts[n].type = type THEN Balance(accts[n]) ELSE 0)

AccountStats(accts) ==
    [bankAccounts |-> Len(SelectSeq(accts, LAMBDA acc : acc.type = "Bank")),
     totalBankBalance |-> TotalOfType(accts, "Bank"),
     totalAssets |-> TotalOfType(accts, "Fixed Asset"),
     totalLiabilities |-> TotalOfType(accts, "Accounts Payable"),
     totalAccounts |-> Len(accts)]

accountStatsOfFiltered == AccountStats(filteredAccounts)

accountStats == AccountStats(accounts)

(* The renders of the main view, for any loaded list and any values of     *)
(* the three inputs.  Requests and timers are left out: a list is stored   *)
(* as setAccounts stores the data of an answer, and the inputs are set as  *)
(* their onChange and onClick handlers set them.                           *)
MaxAccounts == 2    \* the length of the loaded list

SampleAccounts == {A1, A2, A3, A4, A5}
AccountLists == UNION {[1..n -> SampleAccounts] : n \in 0..MaxAccounts}
\* texts typed into the search box
RenderSearchTerms == SearchTerms \cup {"BA", "10"}
\* values of the Select
RenderFilterTypes == FilterTypes \cup {"fixed asset", "accounts payable"}

RenderInit ==
    /\ mounted = TRUE
    /\ currentCompany \in Companies
    /\ searchTerm = ""
    /\ filterType = "all"
    /\ showInactive = FALSE
    /\ accounts = <<>>
    /\ loading = FALSE
    /\ error = Null
    /\ refreshing = FALSE
    /\ inflight = <<>>
    /\ timers = {}
    /\ refreshCont = 0
    /\ lastSuccess = [company |-> NoCompany, newest |-> TRUE,
                      optsCurrent |-> TRUE,
                      resp |-> [hasData |-> FALSE, data |-> <<>>]]
    /\ sinceChange = DebounceMs

RenderSetAccounts(data) ==
    /\ data # accounts
    /\ accounts' = data
    /\ UNCHANGED <<mounted, currentCompany, searchTerm, filterType,
                   showInactive, loading, error, refreshing, inflight, timers,
                   refreshCont, lastSuccess, sinceChange>>

RenderSetSearchTerm(s) ==
    /\ s # searchTerm
    /\ searchTerm' = s
    /\ UNCHANGED <<mounted, currentCompany, filterType, showInactive, accounts,
                   loading, error, refreshing, inflight, timers, refreshCont,
                   lastSuccess, sinceChange>>

RenderSetFilterType(ft) ==
    /\ ft # filterType
    /\ filterType' = ft
    /\ UNCHANGED <<mounted, currentCompany, searchTerm, showInactive, accounts,
                   loading, error, refreshing, inflight, timers, refreshCont,
                   lastSuccess, sinceChange>>

RenderToggleShowInactive ==
    /\ showInactive' = ~showInactive
    /\ UNCHANGED <<mounted, currentCompany, searchTerm, filterType, accounts,
                   loading, error, refreshing, inflight, timers, refreshCont,
                   lastSuccess, sinceChange>>

RenderNext ==
    \/ \E data \in AccountLists : RenderSetAccounts(data)
    \/ \E s \in RenderSearchTerms : RenderSetSearchTerm(s)
    \/ \E ft \in RenderFilterTypes : RenderSetFilterType(ft)
    \/ RenderToggleShowInactive

RenderSpec == RenderInit /\ [][RenderNext]_vars

----------------------------------------------------------------------------
(* Properties                                                              *)

\* The request a step has issued, when it has issued one
Issued == Len(inflight') = Len(inflight) + 1
NewCall == inflight'[Len(inflight')]
\* A step that has changed searchTerm, filterType or showInactive
FilterChanged ==
    \/ searchTerm' # searchTerm
    \/ filterType' # filterType
    \/ showInactive' # showInactive

(* C1: accounts is the initial empty list or the data of the most recently *)
(* completed successful getAccounts call, and that call was issued for the *)
(* currently selected company with the filter values current at its issue. *)
C1_AccountsOfSelectedCompany ==
    /\ accounts = IF lastSuccess.resp.hasData THEN lastSuccess.resp.data
                  ELSE <<>>
    /\ lastSuccess.company # NoCompany =>
          /\ lastSuccess.company = currentCompany
          /\ lastSuccess.optsCurrent

(* C2: no step issues a getAccounts call while no company is selected.     *)
C2_NoCallWithoutCompany ==
    [][Issued => currentCompany' # NoCompany]_vars

(* C3: whenever no company is selected, the output is the select-a-company *)
(* message: neither the loading indicator nor the error panel.             *)
C3_SelectMessageOnly ==
    (mounted /\ currentCompany = NoCompany) => View = "select"

(* C4: requests are not sequenced: the answer of a request that was not    *)
(* the most recently issued one when it resolved is stored in accounts all *)
(* the same.                                                               *)
C4_StaleAnswerStored ==
    ~lastSuccess.newest =>
        accounts = IF lastSuccess.resp.hasData THEN lastSuccess.resp.data
                   ELSE <<>>

\* two requests were in flight, the later-issued one completed first, then
\* the earlier one resolved: no request is in flight and accounts holds the
\* earlier one's data
C4_Witness ==
    /\ inflight = <<>>
    /\ ~loading
    /\ ~lastSuccess.newest
    /\ lastSuccess.resp.hasData
    /\ accounts = lastSuccess.resp.data

(* C5: when a request rejects, error becomes the rejection's message, or   *)
(* "Failed to load accounts" when the message is absent or empty, loading  *)
(* becomes false and accounts stays as it was.                             *)
C5_RejectKeepsAccounts ==
    [][\A i \in 1..Len(inflight), msg \in RejectMessages :
          Reject(i, msg) =>
              /\ error' = IF msg = "undefined" \/ msg = ""
                          THEN "Failed to load accounts" ELSE msg
              /\ loading' = FALSE
              /\ accounts' = accounts]_vars

\* a request was rejected without a message after accounts had been loaded
C5_Witness ==
    /\ error = "Failed to load accounts"
    /\ ~loading
    /\ accounts = <<A1, A2>>

(* C6: every loadAccounts ends with loading = false, whether its request   *)
(* resolved or rejected or it threw before issuing one; so, the service    *)
(* answering every request, a request in flight is always followed by a    *)
(* state with loading = false.                                             *)
C6_LoadingReset ==
    /\ [][(Len(inflight') < Len(inflight) \/ refreshCont' > refreshCont)
              => ~loading']_vars
    /\ (inflight # <<>>) ~> ~loading

\* loadAccounts threw before issuing a request and has reset loading
C6_Witness ==
    /\ error = TypeErrorMessage
    /\ ~loading
    /\ currentCompany = NoCompany

(* C7: a change of searchTerm, filterType or showInactive clears the       *)
(* pending timer and starts one of 500 ms with the new values; at most one *)
(* timer of the debounce effect is pending; and a timer issues its call    *)
(* 500 ms after the last change, with the values current then, leaving no  *)
(* timer behind: one call for a burst of changes.                          *)
C7_Debounce ==
    /\ [](Cardinality(timers) <= 1)
    /\ [][FilterChanged =>
            timers' = {[company |-> currentCompany, searchTerm |-> searchTerm',
                        filterType |-> filterType',
                        showInactive |-> showInactive',
                        remaining |-> 500, owned |-> TRUE]}]_vars
    /\ [][(Issued /\ timers' # timers /\ timers' \subseteq timers) =>
            /\ sinceChange = 500
            /\ NewCall.optsCurrent
            /\ timers' = {}
            /\ \E t \in timers : t.remaining = 0]_vars

\* the three values have changed, the one timer of the last change has run
\* its 500 ms and carries the current values
C7_Witness ==
    /\ searchTerm = "ba" /\ filterType = "bank" /\ showInactive
    /\ sinceChange = 500
    /\ timers = {[company |-> currentCompany, searchTerm |-> "ba",
                  filterType |-> "bank", showInactive |-> TRUE,
                  remaining |-> 0, owned |-> TRUE]}
    /\ inflight = <<>>

(* C8: when the selected company changes to a present one, a getAccounts   *)
(* call for the new company is issued in the same step, with the current   *)
(* searchTerm, filterType and showInactive.                                *)
C8_CompanyChangeLoadsAtOnce ==
    [][(currentCompany' # currentCompany /\ currentCompany' # NoCompany) =>
          /\ Issued
          /\ NewCall.company = currentCompany'
          /\ NewCall.optsCurrent
          /\ loading']_vars

\* c2 was selected after data of c1 had been loaded: the request for c2 is
\* in flight
C8_Witness ==
    /\ currentCompany = "c2"
    /\ lastSuccess.company = "c1"
    /\ Len(inflight) = 1
    /\ inflight[1].company = "c2"
    /\ inflight[1].newest
    /\ loading

(* C9: every getAccounts call carries the options of the values current    *)
(* when it is issued: limit 1000; is_active absent if showInactive, else   *)
(* true; search absent if searchTerm is empty, else searchTerm;            *)
(* account_type absent if filterType is "all", else filterType.            *)
C9_OptionsOfCurrentValues ==
    /\ \A i \in 1..Len(inflight) : inflight[i].optsCurrent
    /\ LET o == Options(searchTerm, filterType, showInactive)
       IN  /\ o.limit = 1000
           /\ showInactive => o.is_active = "undefined"
           /\ ~showInactive => o.is_active = "true"
           /\ searchTerm = "" => o.search = "undefined"
           /\ searchTerm # "" => o.search = searchTerm
           /\ filterType = "all" => o.account_type = "undefined"
           /\ filterType # "all" => o.account_type = filterType

\* all three values are away from their defaults, the timer of the last
\* change has fired and its call is in flight
C9_Witness ==
    /\ Len(inflight) = 1
    /\ inflight[1].optsCurrent
    /\ searchTerm = "ba" /\ filterType = "bank" /\ showInactive
    /\ timers = {}
    /\ loading

(* C10: handleRefresh sets refreshing and then awaits its loadAccounts;    *)
(* refreshing is reset only by the continuation of a handleRefresh, which  *)
(* is queued only when the loadAccounts it awaits has completed (its       *)
(* request answered, or thrown before issuing one) and which resets it;    *)
(* so, the service answering, a handleRefresh in progress is always        *)
(* followed by refreshing = false.                                         *)
C10_RefreshFlag ==
    /\ [][HandleRefresh =>
            /\ refreshing'
            /\ (Issued /\ NewCall.awaited) \/ refreshCont' = refreshCont + 1]_vars
    /\ [][(refreshing /\ ~refreshing') => refreshCont' = refreshCont - 1]_vars
    /\ [][refreshCont' < refreshCont => ~refreshing']_vars
    /\ [][refreshCont' > refreshCont =>
            \/ \E i \in 1..Len(inflight) :
                  inflight[i].awaited /\ inflight' = RemoveAt(inflight, i)
            \/ /\ inflight' = inflight
               /\ currentCompany = NoCompany
               /\ error' = TypeErrorMessage]_vars
    /\ ((\E i \in 1..Len(inflight) : inflight[i].awaited) \/ refreshCont > 0)
          ~> ~refreshing

\* the request handleRefresh awaited has been answered and its continuation
\* is queued: refreshing is still set
C10_Witness ==
    /\ refreshing
    /\ refreshCont = 1
    /\ error # TypeErrorMessage
    /\ ~loading


\* t contains sub: t is some text, then sub, then some text
Contains(t, sub) ==
    \E a \in 1..(Len(t) + 1), b \in 0..Len(t) : SubSeq(t, a, b) = sub
\* the positions of accts that the three conditions of the filter admit
Admitted(accts, st, ft, si) ==
    {i \in 1..Len(accts) :
        /\ \/ st = ""
           \/ Contains(ToLowerCase(Chars(accts[i].name)),
                       ToLowerCase(Chars(st)))
           \/ /\ "number" \in DOMAIN accts[i]
              /\ Chars(accts[i].number) # <<>>
              /\ Contains(Chars(accts[i].number), Chars(st))
        /\ \/ ft = "all"
           \/ LET x == Chars(accts[i].type)
                  y == Chars(ft)
              IN  /\ Len(x) = Len(y)
                  /\ \A k \in 1..Len(x) :
                        ToLowerCase(<<x[k]>>) = ToLowerCase(<<y[k]>>)
        /\ si \/ accts[i].is_active}
\* r lists, in the order of accts, exactly the accounts at the positions in keep
ListsInOrder(r, accts, keep) ==
    /\ Len(r) = Cardinality(keep)
    /\ \E f \in [1..Len(r) -> keep] :
          /\ \A j, k \in 1..Len(r) : j < k => f[j] < f[k]
          /\ \A k \in 1..Len(r) : r[k] = accts[f[k]]

\* C11: for every list of accounts and every searchTerm, filterType and
\* showInactive, filteredAccounts holds, in the order of accounts, exactly
\* the accounts for which (1) searchTerm is empty, or the lower-cased name
\* contains the lower-cased searchTerm, or the account has a non-empty
\* number that contains searchTerm as it is written, (2) filterType is
\* "all" or equals the type ignoring case, and (3) showInactive is true or
\* the account is active.
C11_FilteredAccounts ==
    ListsInOrder(filteredAccounts, accounts,
                 Admitted(accounts, searchTerm, filterType, showInactive))

\* a render in which the number decides with its case, a different case of
\* the same number does not, the type matches in another case, and an
\* inactive account is left out
C11_Witness ==
    /\ accounts = <<A4, A3>>
    /\ searchTerm = "BA"
    /\ filterType = "all"
    /\ showInactive
    /\ filteredAccounts = <<A4, A3>>
    /\ FilteredAccounts(accounts, "ba", "all", TRUE) = <<A3>>
    /\ FilteredAccounts(accounts, "BA", "accounts payable", TRUE) = <<A4>>
    /\ FilteredAccounts(accounts, "BA", "all", FALSE) = <<A3>>

\* C12: for a fixed list of accounts, searchTerm and filterType, the
\* accounts shown with showInactive true include all the accounts shown
\* with showInactive false.
C12_ShowInactiveAddsOnly ==
    LET with == FilteredAccounts(accounts, searchTerm, filterType, TRUE)
        without == FilteredAccounts(accounts, searchTerm, filterType, FALSE)
    IN  /\ {without[i] : i \in 1..Len(without)}
              \subseteq {with[i] : i \in 1..Len(with)}
        /\ Len(without) <= Len(with)
        /\ filteredAccounts = IF showInactive THEN with ELSE without

\* a render whose list with inactive accounts is strictly longer
C12_Witness ==
    /\ showInactive
    /\ FilteredAccounts(accounts, searchTerm, filterType, FALSE) # <<>>
    /\ Len(FilteredAccounts(accounts, searchTerm, filterType, FALSE))
          < Len(filteredAccounts)

\* the sum of the balances at a set of positions, none counting as 0
RECURSIVE BalanceAt(_, _)
BalanceAt(accts, positions) ==
    IF positions = {} THEN 0
    ELSE LET i == CHOOSE k \in positions : TRUE
         IN  (IF "balance" \in DOMAIN accts[i] THEN accts[i].balance ELSE 0)
             + BalanceAt(accts, positions \ {i})
OfType(accts, type) == {i \in 1..Len(accts) : accts[i].type = type}

\* C13: accountStats is computed from the whole loaded list and from
\* nothing else: totalAccounts is its length, bankAccounts the number of
\* accounts whose type is exactly "Bank", and totalBankBalance, totalAssets
\* and totalLiabilities the sums of balance (none counting as 0) over the
\* types "Bank", "Fixed Asset" and "Accounts Payable"; a change of
\* searchTerm, filterType or showInactive leaves it as it is.
C13_StatsOfLoadedAccounts ==
    /\ [](/\ accountStats.totalAccounts = Len(accounts)
          /\ accountStats.bankAccounts = Cardinality(OfType(accounts, "Bank"))
          /\ accountStats.totalBankBalance
                = BalanceAt(accounts, OfType(accounts, "Bank"))
          /\ accountStats.totalAssets
                = BalanceAt(accounts, OfType(accounts, "Fixed Asset"))
          /\ accountStats.totalLiabilities
                = BalanceAt(accounts, OfType(accounts, "Accounts Payable")))
    /\ [][accounts' = accounts => accountStats' = accountStats]_vars

\* a render that hides a counted account, with a Bank account that has no
\* balance and an account whose type is "bank" in lower case
C13_Witness ==
    /\ \E i \in 1..Len(accounts) :
          accounts[i].type = "Bank" /\ "balance" \notin DOMAIN accounts[i]
    /\ \E i \in 1..Len(accounts) : accounts[i].type = "bank"
    /\ filteredAccounts = <<>>
    /\ accountStats.totalAccounts = 2
    /\ accountStats.bankAccounts = 1

\* C14: whenever no getAccounts call is in flight and the last call to
\* complete has resolved, error is null: the failure of an earlier request
\* never leaves the error panel on the screen after a later request has
\* succeeded.  Stated of the states that follow such a completion.
C14_NoErrorAfterSuccess ==
    [][\A i \in 1..Len(inflight), resp \in Responses :
          (Resolve(i, resp) /\ inflight' = <<>>) => error' = Null]_vars

\* C15: loading is true in every state in which a getAccounts call is in
\* flight, also when several overlap and one of them finishes first.
C15_LoadingWhileInFlight == inflight # <<>> => loading

\* C16: mounting with a company selected issues the immediate getAccounts
\* call and schedules no debounced call, and a debounced call is scheduled
\* only by a change of searchTerm, filterType or showInactive; so without
\* user input and without a change of company the mount call is the only
\* one.
C16_OneCallOnMount ==
    /\ [][(~mounted /\ mounted' /\ currentCompany # NoCompany)
             => (Issued /\ timers' = {})]_vars
    /\ [][(\E t \in timers' : t \notin timers) => FilterChanged]_vars

\* C17: refreshing is true in every state in which a handleRefresh has
\* started and has not finished (its loadAccounts is awaited, or its
\* continuation is queued), also when handleRefresh is invoked again by
\* Retry while an earlier one is still awaiting.
C17_RefreshingWhileRefreshing ==
    ((\E i \in 1..Len(inflight) : inflight[i].awaited) \/ refreshCont > 0)
        => refreshing

============================================================================
